---- MODULE Spec2Model ----
(***************************************************************************)
(* Model of smartSam2Fastq.py: the record parser (Read.__init__), the      *)
(* comparison operators of Read, the generator parse_and_deduplicate_sam   *)
(* and the loop of main that consumes it and writes the two FASTQ streams. *)
(*                                                                         *)
(* A SAM line is modelled by its tab-separated fields: "at" says whether   *)
(* the line starts with '@', "nfields" is the number of fields that        *)
(* line.split("\t") returns, and template/flags/contig/seq/qual are the    *)
(* fields 0, 1, 2, 9 and 10.  Strings that the code indexes, reverses or   *)
(* tests with endswith are sequences of one-character strings.             *)
(*                                                                         *)
(* The generator and main are coroutines: an action is one stretch of      *)
(* execution between two hand-overs (a yield, StopIteration or an          *)
(* exception).                                                             *)
(***************************************************************************)
EXTENDS Integers, Sequences, FiniteSets, TLC

VARIABLES
    pc,             \* where control is: "next", "body", "resume", "finish", "done", "error"
    err,            \* the exception that ended the run, "none" while there is none
    consumed,       \* number of lines the generator has taken from sam_input
    line,           \* loop variable of parse_and_deduplicate_sam
    last_template,  \* local of parse_and_deduplicate_sam
    reads_by_end,   \* local of parse_and_deduplicate_sam: dict end -> Read
    pending,        \* the item the generator has yielded to main's for loop
    yieldAt,        \* the yield statement the generator is suspended at
    fq1,            \* what has been written to options.fq1
    fq2,            \* what has been written to options.fq2
    stderr,         \* the warnings written to sys.stderr
    finalized,      \* history: the groups closed by the two finalization loops
    writes,         \* history: the writes in order, each with stream and name
    yielded,        \* history: the items the generator has yielded, in order
    seen,           \* history: the lines merged, where the merge runs on its own
    \* getAltReads.py, downloadRange
    ftp_retry,      \* options.ftp_retry
    try_number,     \* local of downloadRange
    dl_pc,          \* "try", "returned" or "raised"
    dl_err,         \* the exception downloadRange ended with, or "none"
    attempts,       \* history: number of runs of the samtools download
    dl_log,         \* history: the levels of the messages logged
    \* toillib.py, LoggingDatagramHandler.handle
    rfile,          \* the messages of the datagram, in order
    pos,            \* number of the next message in rfile
    record,         \* local of handle: the message the record was made from,
                    \* NoRecord while the name is unbound
    handled,        \* history: the records handed to the "remote" logger
    errors,         \* history: number of "Malformed record" errors logged
    hd_pc,          \* "read", "returned", "spin" or "raised"
    hd_err          \* the exception handle ended with, or "none"

samVars == <<pc, err, consumed, line, last_template, reads_by_end, pending,
             yieldAt, fq1, fq2, stderr, finalized, writes, yielded, seen>>

toilVars == <<ftp_retry, try_number, dl_pc, dl_err, attempts, dl_log,
              rfile, pos, record, handled, errors, hd_pc, hd_err>>

vars == <<samVars, toilVars>>

----------------------------------------------------------------------------
(* Bounds of the model *)

MaxLines == 3

Templates == {"T1", "T2"}

Chr1 == <<"c", "h", "r", "1">>
Chr6Alt == <<"c", "6", "_", "a", "l", "t">>
Contigs == {Chr1, Chr6Alt}

\* number of groups handed to the loop of main on its own
MaxGroups == 3

\* number of records merged into one group on its own
MaxMerges == 3

\* longest sequence and number of applications of reverse_complement on its
\* own
MaxSeqLen == 3
MaxApply == 2

\* largest value of --ftp_retry and longest datagram
MaxRetry == 2
MaxMsgs == 3

\* largest flags value given to Read on its own
MaxFlag == 255

FlagSet == {0, 64, 80, 128}

SeqQuals ==
    { <<<<"A">>, <<"I">>>>,
      <<<<"A", "C">>, <<"I", "J">>>>,
      <<<<"A", "C">>, <<"I", "I">>>>,
      <<<<"A", "G">>, <<"I", "J">>>> }

----------------------------------------------------------------------------
(* Global SAM constants *)

BAM_FREVERSE == 16
BAM_FREAD1 == 64
BAM_FREAD2 == 128

\* index of the last field Read.__init__ reads (parts[10]), plus one
MinFields == 11

None == "None"

\* the suffix tested by contig.endswith
ALT_SUFFIX == <<"_", "a", "l", "t">>

----------------------------------------------------------------------------
(* Lines of the input *)

MkLine(at, n, t, f, c, sq) ==
    [at |-> at, nfields |-> n, template |-> t, flags |-> f, contig |-> c,
     seq |-> sq[1], qual |-> sq[2]]

\* value of the loop variable before the first iteration
NoLine == MkLine(FALSE, 0, None, 0, <<>>, <<<<>>, <<>>>>)

AlignmentLines ==
    { MkLine(FALSE, MinFields, t, f, c, sq) :
        t \in Templates, f \in FlagSet, c \in Contigs, sq \in SeqQuals }

\* lines with too few fields: a bare name, and a line cut after the sequence
ShortLines ==
    { MkLine(FALSE, 1, "T1", 0, <<>>, <<<<>>, <<>>>>),
      MkLine(FALSE, MinFields - 1, "T2", 64, Chr1, <<<<"A">>, <<>>>>) }

\* lines flagged as both first and second mate
BothMateLines ==
    { MkLine(FALSE, MinFields, "T1", 192, Chr1, <<<<"A">>, <<"I">>>>),
      MkLine(FALSE, MinFields, "T2", 192, Chr6Alt,
             <<<<"A", "C">>, <<"I", "J">>>>) }

\* lines starting with '@': a one-field header, and a line that has the
\* eleven fields of an alignment (with both mate bits) behind the '@'
HeaderLines ==
    { MkLine(TRUE, 1, "@HD", 0, <<>>, <<<<>>, <<>>>>),
      MkLine(TRUE, MinFields, "@T1", 192, Chr1, <<<<"A">>, <<"I">>>>) }

Lines == AlignmentLines \cup ShortLines \cup BothMateLines \cup HeaderLines

\* variant: only the one-field header lines are recognised
StartsWithAt_OneField(l) == l.at /\ l.nfields = 1

\* line.startswith("@")
StartsWithAt(l) == l.at

----------------------------------------------------------------------------
(* Helpers for strings and flags *)

\* flags & bit, for a bit that is a power of two
HasBit(flags, bit) == (flags \div bit) % 2 = 1

\* s[::-1]
Reverse(s) == [i \in 1..Len(s) |-> s[Len(s) + 1 - i]]

\* variant: the table lacks the entry for T
RC_TABLE_NoT(ch) ==
    CASE ch = "A" -> "T"
      [] ch = "C" -> "G"
      [] ch = "G" -> "C"
      [] OTHER -> ch

\* one character through RC_TABLE = maketrans("ACGT", "TGCA")
RC_TABLE(ch) ==
    CASE ch = "A" -> "T"
      [] ch = "C" -> "G"
      [] ch = "G" -> "C"
      [] ch = "T" -> "A"
      [] OTHER -> ch

reverse_complement(dna) ==
    Reverse([i \in 1..Len(dna) |-> RC_TABLE(dna[i])])

\* s.endswith(suffix)
EndsWith(s, suffix) ==
    /\ Len(s) >= Len(suffix)
    /\ SubSeq(s, Len(s) - Len(suffix) + 1, Len(s)) = suffix

----------------------------------------------------------------------------
(* class Read *)

\* variant: the test for both mate bits is missing
ParseError_NoMateCheck(l) ==
    IF l.nfields < MinFields THEN "IndexError" ELSE "none"

\* the exception Read(sam_line) raises, "none" when it returns
ParseError(l) ==
    IF l.nfields < 2 THEN "IndexError"
    ELSE IF HasBit(l.flags, BAM_FREAD1) /\ HasBit(l.flags, BAM_FREAD2)
         THEN "BothEnds"
    ELSE IF l.nfields < MinFields THEN "IndexError"
    ELSE "none"

\* variant: the flags are compared as a whole instead of bit by bit
ReadEnd_ExactFlags(flags) ==
    IF flags = BAM_FREAD1 THEN 1
    ELSE IF flags = BAM_FREAD2 THEN 2
    ELSE 0

ReadEnd(flags) ==
    IF HasBit(flags, BAM_FREAD1) THEN 1
    ELSE IF HasBit(flags, BAM_FREAD2) THEN 2
    ELSE 0

IsSuspect(contig, sequence) ==
    EndsWith(contig, ALT_SUFFIX) /\ Len(sequence) % 2 = 0

\* variant: only reverse-strand alignments can be suspect
Read_SuspectOnReverse(l) ==
    LET rev == HasBit(l.flags, BAM_FREVERSE)
        sequence == IF rev THEN reverse_complement(l.seq) ELSE l.seq
        qualities == IF rev THEN Reverse(l.qual) ELSE l.qual
    IN  [line |-> l,
         template |-> l.template,
         flags |-> l.flags,
         end |-> ReadEnd(l.flags),
         sequence |-> sequence,
         qualities |-> qualities,
         is_reverse |-> rev,
         contig |-> l.contig,
         is_suspect |-> rev /\ IsSuspect(l.contig, sequence)]

\* the object Read(sam_line) constructs
Read(l) ==
    LET rev == HasBit(l.flags, BAM_FREVERSE)
        sequence == IF rev THEN reverse_complement(l.seq) ELSE l.seq
        qualities == IF rev THEN Reverse(l.qual) ELSE l.qual
    IN  [line |-> l,
         template |-> l.template,
         flags |-> l.flags,
         end |-> ReadEnd(l.flags),
         sequence |-> sequence,
         qualities |-> qualities,
         is_reverse |-> rev,
         contig |-> l.contig,
         is_suspect |-> IsSuspect(l.contig, sequence)]

get_name(read) ==
    IF read.end = 0 THEN <<read.template>>
    ELSE <<read.template, "/", read.end>>

\* variant: the sequences are not compared
Read_eq_NoSequence(self, other) ==
    IF self.template # other.template THEN "False"
    ELSE IF self.qualities # other.qualities THEN "NameError"
    ELSE IF self.end # other.end THEN "False"
    ELSE "True"

\* variant: contig and strand of the alignment are compared too
Read_eq_SameAlignment(self, other) ==
    IF self.template # other.template THEN "False"
    ELSE IF self.sequence # other.sequence THEN "False"
    ELSE IF self.qualities # other.qualities THEN "NameError"
    ELSE IF self.end # other.end THEN "False"
    ELSE IF self.contig # other.contig THEN "False"
    ELSE IF self.is_reverse # other.is_reverse THEN "False"
    ELSE "True"

\* Read.__eq__: "True", "False", or "NameError" where the code evaluates the
\* undefined name Fasle
Read_eq(self, other) ==
    IF self.template # other.template THEN "False"
    ELSE IF self.sequence # other.sequence THEN "False"
    ELSE IF self.qualities # other.qualities THEN "NameError"
    ELSE IF self.end # other.end THEN "False"
    ELSE "True"

\* Read.__ne__: not self.__eq__(other)
Read_ne(self, other) ==
    LET eq == Read_eq(self, other)
    IN  IF eq = "NameError" THEN "NameError"
        ELSE IF eq = "True" THEN "False" ELSE "True"

\* variant: only a longer sequence wins, a suspect other does not lose
Read_gt_LongerOnly(self, other) ==
    /\ self.template = other.template
    /\ self.end = other.end
    /\ ~self.is_suspect
    /\ Len(self.sequence) > Len(other.sequence)

\* variant: a sequence of the same length wins too
Read_gt_LongerOrEqual(self, other) ==
    /\ self.template = other.template
    /\ self.end = other.end
    /\ ~self.is_suspect
    /\ (Len(self.sequence) >= Len(other.sequence) \/ other.is_suspect)

\* variant: a suspect read may win as well
Read_gt_NoSuspectTest(self, other) ==
    /\ self.template = other.template
    /\ self.end = other.end
    /\ (Len(self.sequence) > Len(other.sequence) \/ other.is_suspect)

\* Read.__gt__
Read_gt(self, other) ==
    /\ self.template = other.template
    /\ self.end = other.end
    /\ ~self.is_suspect
    /\ (Len(self.sequence) > Len(other.sequence) \/ other.is_suspect)

----------------------------------------------------------------------------
(* parse_and_deduplicate_sam *)

EmptyDict == [e \in {} |-> NoLine]

\* reads_by_end[key] = value
DictSet(d, key, value) ==
    [e \in DOMAIN d \cup {key} |-> IF e = key THEN value ELSE d[e]]

\* variant: the conflict test does not look at the lengths
MergeRead_NoLengthTest(reads, read) ==
    IF read.end \notin DOMAIN reads
    THEN [reads |-> DictSet(reads, read.end, read), err |-> "none"]
    ELSE LET cur == reads[read.end]
         IN  IF Read_gt(read, cur)
             THEN [reads |-> DictSet(reads, read.end, read), err |-> "none"]
             ELSE IF ~read.is_suspect
                  THEN LET ne == Read_ne(read, cur)
                       IN  [reads |-> reads,
                            err |-> IF ne = "NameError" THEN "NameError"
                                    ELSE IF ne = "True" THEN "Conflict"
                                    ELSE "none"]
                  ELSE [reads |-> reads, err |-> "none"]

\* the merge of a parsed read into the open group (lines 249-263): the
\* dict afterwards and the exception raised, "none" when there is none
\* (Read defines no __lt__, so "reads_by_end[read.end] < read" is evaluated
\* by the reflected read.__gt__(reads_by_end[read.end]))
MergeRead(reads, read) ==
    IF read.end \notin DOMAIN reads
    THEN [reads |-> DictSet(reads, read.end, read), err |-> "none"]
    ELSE LET cur == reads[read.end]
         IN  IF Read_gt(read, cur)
             THEN [reads |-> DictSet(reads, read.end, read), err |-> "none"]
             ELSE IF ~read.is_suspect
                     /\ Len(read.sequence) >= Len(cur.sequence)
                  THEN LET ne == Read_ne(read, cur)
                       IN  [reads |-> reads,
                            err |-> IF ne = "NameError" THEN "NameError"
                                    ELSE IF ne = "True" THEN "Conflict"
                                    ELSE "none"]
                  ELSE [reads |-> reads, err |-> "none"]

\* the ends of a dict in the order itervalues() visits them
RECURSIVE EndsInOrder(_)
EndsInOrder(S) ==
    IF S = {} THEN <<>>
    ELSE LET m == CHOOSE x \in S : \A y \in S : x <= y
         IN  <<m>> \o EndsInOrder(S \ {m})

\* the warnings a finalization loop writes for the group
RECURSIVE WarningsOf(_, _)
WarningsOf(reads, ends) ==
    IF ends = <<>> THEN <<>>
    ELSE LET end_read == reads[Head(ends)]
         IN  (IF end_read.is_suspect
              THEN <<[end |-> end_read.end, template |-> end_read.template]>>
              ELSE <<>>) \o WarningsOf(reads, Tail(ends))

\* variant: the loop stops after the first warning
Warnings_FirstOnly(reads) ==
    LET all == WarningsOf(reads, EndsInOrder(DOMAIN reads))
    IN  IF all = <<>> THEN <<>> ELSE <<Head(all)>>

Warnings(reads) == WarningsOf(reads, EndsInOrder(DOMAIN reads))

\* variant: all_ok is set to False for the suspect reads only
AllOk_NoSuspect(reads) == \A e \in DOMAIN reads : ~reads[e].is_suspect

\* the value of all_ok after a finalization loop: the loop body sets it to
\* False for every read of the group, suspect or not
AllOk(reads) == DOMAIN reads = {}

\* history entry of a finalization loop
Summary(template, reads) ==
    [template |-> template,
     suspect |-> [e \in DOMAIN reads |-> reads[e].is_suspect]]

Finalize(reads) ==
    /\ stderr' = stderr \o Warnings(reads)
    /\ finalized' = IF DOMAIN reads = {} THEN finalized
                    ELSE Append(finalized, Summary(last_template, reads))

\* variant: the exception is recorded and the loop goes on
Raise_Continue(kind) ==
    /\ pc' = "next"
    /\ err' = kind

\* an exception leaves the generator and main
Raise(kind) ==
    /\ pc' = "error"
    /\ err' = kind

\* variant: the dict is not replaced by a new one on a template change
StartAndMerge_KeepOld(newState, read) ==
    LET m == MergeRead(reads_by_end, read)
    IN  /\ last_template' = IF newState THEN read.template ELSE last_template
        /\ reads_by_end' = m.reads
        /\ IF m.err = "none"
           THEN pc' = "next" /\ err' = err
           ELSE Raise(m.err)

\* lines 245-263: start a new state when told to, then merge the read
StartAndMerge(newState, read) ==
    LET base == IF newState THEN EmptyDict ELSE reads_by_end
        m == MergeRead(base, read)
    IN  /\ last_template' = IF newState THEN read.template ELSE last_template
        /\ reads_by_end' = m.reads
        /\ IF m.err = "none"
           THEN pc' = "next" /\ err' = err
           ELSE Raise(m.err)

NoItem == [kind |-> "none", line |-> NoLine, reads |-> EmptyDict]
StrItem(l) == [kind |-> "str", line |-> l, reads |-> EmptyDict]
DictItem(reads) == [kind |-> "dict", line |-> NoLine, reads |-> reads]

\* lines 220-224: the next line starts with '@' and is yielded
NextHeader ==
    /\ pc = "next"
    /\ consumed < MaxLines
    /\ \E l \in Lines :
        /\ StartsWithAt(l)
        /\ line' = l
        /\ consumed' = consumed + 1
        /\ pending' = StrItem(l)
        /\ yielded' = Append(yielded, StrItem(l))
        /\ yieldAt' = "header"
        /\ pc' = "body"
    /\ UNCHANGED <<err, last_template, reads_by_end, fq1, fq2, stderr,
                   finalized, writes, seen>>
    /\ UNCHANGED toilVars

\* lines 226-263: the next line is parsed; on a template change the open
\* group is finalized and perhaps yielded; otherwise the read is merged
NextRecord ==
    /\ pc = "next"
    /\ consumed < MaxLines
    /\ \E l \in Lines :
        /\ ~StartsWithAt(l)
        /\ line' = l
        /\ consumed' = consumed + 1
        /\ IF ParseError(l) # "none"
           THEN /\ Raise(ParseError(l))
                /\ UNCHANGED <<last_template, reads_by_end, pending, yieldAt,
                               stderr, finalized, yielded>>
           ELSE LET read == Read(l)
                IN  IF read.template # last_template
                    THEN /\ Finalize(reads_by_end)
                         /\ IF AllOk(reads_by_end)
                            THEN /\ pending' = DictItem(reads_by_end)
                                 /\ yielded' = Append(yielded,
                                                  DictItem(reads_by_end))
                                 /\ yieldAt' = "change"
                                 /\ pc' = "body"
                                 /\ UNCHANGED <<err, last_template,
                                                reads_by_end>>
                            ELSE /\ StartAndMerge(TRUE, read)
                                 /\ UNCHANGED <<pending, yieldAt, yielded>>
                    ELSE /\ StartAndMerge(FALSE, read)
                         /\ UNCHANGED <<pending, yieldAt, stderr, finalized,
                                        yielded>>
    /\ UNCHANGED <<fq1, fq2, writes, seen>>
    /\ UNCHANGED toilVars

\* lines 244-263 after the yield of line 242: the generator is resumed
ResumeAfterYield ==
    /\ pc = "resume"
    /\ StartAndMerge(TRUE, Read(line))
    /\ UNCHANGED <<consumed, line, pending, yieldAt, fq1, fq2, stderr,
                   finalized, writes, yielded, seen>>
    /\ UNCHANGED toilVars

\* variant: the open group is not finalized when the input ends
EndOfStream_NoFlush ==
    /\ pc = "next"
    /\ pc' = "done"
    /\ UNCHANGED <<err, consumed, line, last_template, reads_by_end, pending,
                   yieldAt, fq1, fq2, stderr, finalized, writes, yielded, seen>>
    /\ UNCHANGED toilVars

\* lines 265-276: sam_input is exhausted
EndOfStream ==
    /\ pc = "next"
    /\ Finalize(reads_by_end)
    /\ IF AllOk(reads_by_end)
       THEN /\ pending' = DictItem(reads_by_end)
            /\ yielded' = Append(yielded, DictItem(reads_by_end))
            /\ yieldAt' = "end"
            /\ pc' = "body"
       ELSE /\ pc' = "done"
            /\ UNCHANGED <<pending, yieldAt, yielded>>
    /\ UNCHANGED <<err, consumed, line, last_template, reads_by_end, fq1, fq2,
                   writes, seen>>
    /\ UNCHANGED toilVars

\* the generator returns after the yield of line 276
Finish ==
    /\ pc = "finish"
    /\ pc' = "done"
    /\ UNCHANGED <<err, consumed, line, last_template, reads_by_end, pending,
                   yieldAt, fq1, fq2, stderr, finalized, writes, yielded, seen>>
    /\ UNCHANGED toilVars

----------------------------------------------------------------------------
(* main *)

\* what write_fastq writes for a read
\* variant: a reverse-strand read is flipped again when it is written
FastqRecord_Renormalized(read) ==
    [name |-> get_name(read),
     sequence |-> IF read.is_reverse THEN reverse_complement(read.sequence)
                  ELSE read.sequence,
     qualities |-> IF read.is_reverse THEN Reverse(read.qualities)
                   ELSE read.qualities]

FastqRecord(read) ==
    [name |-> get_name(read), sequence |-> read.sequence,
     qualities |-> read.qualities]

\* variant: the record is put at the head of the stream
write_fastq_AtHead(stream, read) == <<FastqRecord(read)>> \o stream

write_fastq(stream, read) == Append(stream, FastqRecord(read))

\* history entry of a call of write_fastq
Wrote(stream, read) == [stream |-> stream, name |-> get_name(read)]

\* variant: main does not test for the two ends
HasBothEnds_Unchecked(d) == TRUE

\* variant: main tests for end 1 only
HasBothEnds_Mate1Only(d) == 1 \in DOMAIN d

\* reads_by_end.has_key(1) and reads_by_end.has_key(2)
HasBothEnds(d) == 1 \in DOMAIN d /\ 2 \in DOMAIN d

\* where the generator continues when main asks for the next item
AfterYield ==
    CASE yieldAt = "header" -> "next"
      [] yieldAt = "change" -> "resume"
      [] yieldAt = "end" -> "finish"
      [] OTHER -> "next"

\* lines 300-307: the body of main's loop for the item just yielded
MainBody ==
    /\ pc = "body"
    /\ IF pending.kind = "str"
       THEN \* a str has no has_key
            /\ Raise("AttributeError")
            /\ UNCHANGED <<fq1, fq2, writes>>
       ELSE LET d == pending.reads
            IN  IF ~HasBothEnds(d)
                THEN /\ pc' = AfterYield
                     /\ UNCHANGED <<err, fq1, fq2, writes>>
                ELSE IF 1 \notin DOMAIN d
                THEN /\ Raise("KeyError")
                     /\ UNCHANGED <<fq1, fq2, writes>>
                ELSE IF 2 \notin DOMAIN d
                THEN /\ Raise("KeyError")
                     /\ fq1' = write_fastq(fq1, d[1])
                     /\ fq2' = fq2
                     /\ writes' = Append(writes, Wrote("fq1", d[1]))
                ELSE /\ pc' = AfterYield
                     /\ err' = err
                     /\ fq1' = write_fastq(fq1, d[1])
                     /\ fq2' = write_fastq(fq2, d[2])
                     /\ writes' = writes \o <<Wrote("fq1", d[1]),
                                                Wrote("fq2", d[2])>>
    /\ UNCHANGED <<consumed, line, last_template, reads_by_end, pending,
                   yieldAt, stderr, finalized, yielded, seen>>
    /\ UNCHANGED toilVars

----------------------------------------------------------------------------
(* getAltReads.py: downloadRange *)

\* options.ftp_retry as parse_args delivers it: add_argument gives no type,
\* so it is the text of the option (the default is the str "1")
RetryValues == { [type |-> "str", value |-> n] : n \in 0..MaxRetry }

\* try_number >= options.ftp_retry: in Python 2 an int is smaller than any
\* str
RetriesExhausted(n, retry) ==
    IF retry.type = "int" THEN n >= retry.value ELSE FALSE

\* thread.sleep(10): the exception it ends with; the name thread is not
\* bound in getAltReads.py (the file imports threading and time)
thread_sleep == "NameError"

\* lines 437-461: one turn of the while loop, with either outcome of the
\* samtools call
DownloadAttempt ==
    /\ dl_pc = "try"
    /\ attempts <= MaxRetry + 1
    /\ attempts' = attempts + 1
    /\ \E ok \in BOOLEAN :
        IF ok
        THEN /\ dl_log' = Append(dl_log, "info")
             /\ dl_pc' = "returned"
             /\ UNCHANGED <<try_number, dl_err>>
        ELSE IF RetriesExhausted(try_number, ftp_retry)
        THEN /\ dl_log' = Append(dl_log, "info")
             /\ dl_pc' = "raised"
             /\ dl_err' = "CalledProcessError"
             /\ UNCHANGED try_number
        ELSE /\ dl_log' = dl_log \o <<"info", "warning">>
             /\ IF thread_sleep # "none"
                THEN /\ dl_pc' = "raised"
                     /\ dl_err' = thread_sleep
                     /\ UNCHANGED try_number
                ELSE /\ try_number' = try_number + 1
                     /\ UNCHANGED <<dl_pc, dl_err>>
    /\ UNCHANGED <<ftp_retry, rfile, pos, record, handled, errors, hd_pc,
                   hd_err>>
    /\ UNCHANGED samVars

----------------------------------------------------------------------------
(* toillib.py: LoggingDatagramHandler.handle (the same code is in          *)
(* getAltReads.py and parallelMappingEvaluation.py)                        *)

\* value of the name record while it is unbound
NoRecord == 0

\* a message is a length prefix and a body: "json" has a body that
\* json.loads accepts, "garbage" one it rejects, "cut" a body shorter than
\* its prefix says, which only the last message of a datagram can have
Datagrams ==
    { d \in UNION { [1..n -> {"json", "garbage", "cut"}] : n \in 0..MaxMsgs } :
        \A i \in DOMAIN d : d[i] = "cut" => i = Len(d) }

\* line 80 after the except clause of lines 76-77: the record handed to the
\* logger, or the exception for the unbound name
AfterMalformed(rec) ==
    IF rec = NoRecord THEN [err |-> "UnboundLocalError", handle |-> NoRecord]
    ELSE [err |-> "none", handle |-> rec]

\* lines 43-80: one turn of the while loop of handle
HandleMessage ==
    /\ hd_pc = "read"
    /\ IF pos > Len(rfile)
       THEN \* fewer than 4 bytes are left
            /\ hd_pc' = "returned"
            /\ UNCHANGED <<pos, record, handled, errors, hd_err>>
       ELSE IF rfile[pos] = "cut"
       THEN \* read returns "" for ever and length_received stays below length
            /\ hd_pc' = "spin"
            /\ UNCHANGED <<pos, record, handled, errors, hd_err>>
       ELSE IF rfile[pos] = "json"
       THEN /\ record' = pos
            /\ handled' = Append(handled, pos)
            /\ pos' = pos + 1
            /\ UNCHANGED <<errors, hd_pc, hd_err>>
       ELSE LET after == AfterMalformed(record)
            IN  /\ errors' = errors + 1
                /\ record' = record
                /\ IF after.err # "none"
                   THEN /\ hd_pc' = "raised"
                        /\ hd_err' = after.err
                        /\ UNCHANGED <<pos, handled>>
                   ELSE /\ handled' = IF after.handle = NoRecord THEN handled
                                      ELSE Append(handled, after.handle)
                        /\ pos' = pos + 1
                        /\ UNCHANGED <<hd_pc, hd_err>>
    /\ UNCHANGED <<ftp_retry, try_number, dl_pc, dl_err, attempts, dl_log,
                   rfile>>
    /\ UNCHANGED samVars

\* nothing of getAltReads.py or toillib.py runs
ToilIdle ==
    /\ ftp_retry = [type |-> "str", value |-> 1]
    /\ try_number = 0
    /\ dl_pc = "returned"
    /\ dl_err = "none"
    /\ attempts = 0
    /\ dl_log = <<>>
    /\ rfile = <<>>
    /\ pos = 1
    /\ record = NoRecord
    /\ handled = <<>>
    /\ errors = 0
    /\ hd_pc = "returned"
    /\ hd_err = "none"

\* nothing of smartSam2Fastq.py runs
SamIdle ==
    /\ pc = "done"
    /\ err = "none"
    /\ consumed = 0
    /\ line = NoLine
    /\ last_template = None
    /\ reads_by_end = EmptyDict
    /\ pending = NoItem
    /\ yieldAt = "none"
    /\ fq1 = <<>>
    /\ fq2 = <<>>
    /\ stderr = <<>>
    /\ finalized = <<>>
    /\ writes = <<>>
    /\ yielded = <<>>
    /\ seen = <<>>

\* downloadRange is called with some --ftp_retry, and handle with some
\* datagram
InitToil ==
    /\ SamIdle
    /\ ftp_retry \in RetryValues
    /\ try_number = 0
    /\ dl_pc = "try"
    /\ dl_err = "none"
    /\ attempts = 0
    /\ dl_log = <<>>
    /\ rfile \in Datagrams
    /\ pos = 1
    /\ record = NoRecord
    /\ handled = <<>>
    /\ errors = 0
    /\ hd_pc = "read"
    /\ hd_err = "none"

NextToil ==
    \/ DownloadAttempt
    \/ HandleMessage

SpecToil == InitToil /\ [][NextToil]_vars

----------------------------------------------------------------------------

Init ==
    /\ pc = "next"
    /\ err = "none"
    /\ consumed = 0
    /\ line = NoLine
    /\ last_template = None
    /\ reads_by_end = EmptyDict
    /\ pending = NoItem
    /\ yieldAt = "none"
    /\ fq1 = <<>>
    /\ fq2 = <<>>
    /\ stderr = <<>>
    /\ finalized = <<>>
    /\ writes = <<>>
    /\ yielded = <<>>
    /\ seen = <<>>
    /\ ToilIdle

Next ==
    \/ NextHeader
    \/ NextRecord
    \/ ResumeAfterYield
    \/ EndOfStream
    \/ Finish
    \/ MainBody

Spec == Init /\ [][Next]_vars

----------------------------------------------------------------------------
(* Read and write_fastq on their own: one line is parsed by Read(sam_line) *)
(* and the object is written by write_fastq.                               *)

AltOnly == <<"a", "l", "t">>
AltThenDigit == <<"c", "_", "a", "l", "t", "1">>
ReadContigs == {<<>>, Chr1, Chr6Alt, ALT_SUFFIX, AltOnly, AltThenDigit}

ReadFlags == 0..MaxFlag

ReadSeqQuals ==
    { <<<<>>, <<>>>>,
      <<<<"A">>, <<"I">>>>,
      <<<<"T", "N">>, <<"I", "J">>>>,
      <<<<"A", "C", "G">>, <<"I", "J", "K">>>>,
      <<<<"A", "A", "C", "G">>, <<"I", "J", "K", "L">>>> }

ReadLines ==
    { MkLine(FALSE, MinFields, "T1", f, c, sq) :
        f \in ReadFlags, c \in ReadContigs, sq \in ReadSeqQuals }

InitRead ==
    /\ pc = "parse"
    /\ err = "none"
    /\ consumed = 0
    /\ line \in ReadLines
    /\ last_template = None
    /\ reads_by_end = EmptyDict
    /\ pending = NoItem
    /\ yieldAt = "none"
    /\ fq1 = <<>>
    /\ fq2 = <<>>
    /\ stderr = <<>>
    /\ finalized = <<>>
    /\ writes = <<>>
    /\ yielded = <<>>
    /\ seen = <<>>
    /\ ToilIdle

\* read = Read(line); the object is kept under its end
ParseLine ==
    /\ pc = "parse"
    /\ IF ParseError(line) # "none"
       THEN /\ Raise(ParseError(line))
            /\ reads_by_end' = reads_by_end
       ELSE /\ reads_by_end' = DictSet(EmptyDict, Read(line).end, Read(line))
            /\ pc' = "write"
            /\ err' = err
    /\ UNCHANGED <<consumed, line, last_template, pending, yieldAt, fq1, fq2,
                   stderr, finalized, writes, yielded, seen>>
    /\ UNCHANGED toilVars

\* write_fastq(fq1, read)
WriteRead ==
    /\ pc = "write"
    /\ \E e \in DOMAIN reads_by_end :
        /\ fq1' = write_fastq(fq1, reads_by_end[e])
        /\ writes' = Append(writes, Wrote("fq1", reads_by_end[e]))
    /\ pc' = "written"
    /\ UNCHANGED <<err, consumed, line, last_template, reads_by_end, pending,
                   yieldAt, fq2, stderr, finalized, yielded, seen>>
    /\ UNCHANGED toilVars

NextRead ==
    \/ ParseLine
    \/ WriteRead

SpecRead == InitRead /\ [][NextRead]_vars

----------------------------------------------------------------------------
(* The loop of main on its own: it takes whatever the iterator hands over, *)
(* a header line or a dict from end number to Read of one template, with   *)
(* any subset of the ends 0, 1 and 2.                                      *)

GroupLines ==
    { l \in AlignmentLines : l.contig = Chr1 /\ l.seq = <<"A">> }

\* the dicts from end number to Read object of template t, {} included
GroupsOf(t) ==
    LET ReadsOf(e) ==
            { Read(l) : l \in { x \in GroupLines :
                                  x.template = t /\ ReadEnd(x.flags) = e } }
    IN  UNION { { d \in [ends -> UNION { ReadsOf(e) : e \in ends }] :
                    \A e \in ends : d[e] \in ReadsOf(e) } :
                ends \in SUBSET {0, 1, 2} }

\* line 300: the iterator hands a dict to the loop
YieldGroup ==
    /\ pc = "next"
    /\ consumed < MaxGroups
    /\ \E t \in Templates :
        \E d \in GroupsOf(t) :
            /\ pending' = DictItem(d)
            /\ yielded' = Append(yielded, DictItem(d))
            /\ finalized' = IF DOMAIN d = {} THEN finalized
                            ELSE Append(finalized, Summary(t, d))
            /\ last_template' = t
    /\ consumed' = consumed + 1
    /\ yieldAt' = "none"
    /\ pc' = "body"
    /\ UNCHANGED <<err, line, reads_by_end, fq1, fq2, stderr, writes, seen>>
    /\ UNCHANGED toilVars

\* line 300: the iterator is exhausted and the loop ends
StopIteration ==
    /\ pc = "next"
    /\ pc' = "done"
    /\ UNCHANGED <<err, consumed, line, last_template, reads_by_end, pending,
                   yieldAt, fq1, fq2, stderr, finalized, writes, yielded, seen>>
    /\ UNCHANGED toilVars

NextMain ==
    \/ YieldGroup
    \/ NextHeader
    \/ MainBody
    \/ StopIteration

SpecMain == Init /\ [][NextMain]_vars

----------------------------------------------------------------------------
(* The merge on its own (lines 249-263): records of one template are       *)
(* merged into its open group, one after the other.                        *)

MergeSeqQuals ==
    { <<<<>>, <<>>>>,
      <<<<"A">>, <<"I">>>>,
      <<<<"A", "C">>, <<"I", "J">>>>,
      <<<<"A", "C">>, <<"I", "I">>>>,
      <<<<"A", "G">>, <<"I", "J">>>>,
      <<<<"G", "T">>, <<"J", "I">>>>,
      <<<<"A", "C", "G">>, <<"I", "J", "K">>>> }

\* unpaired forward records on both contigs, two reverse-strand records and
\* a first mate
MergeLines ==
    { l \in { MkLine(FALSE, MinFields, "T1", f, c, sq) :
                f \in {0, BAM_FREVERSE, BAM_FREAD1}, c \in Contigs,
                sq \in MergeSeqQuals } :
        \/ l.flags = 0
        \/ /\ l.flags = BAM_FREVERSE /\ l.contig = Chr1
           /\ l.seq \in {<<"A">>, <<"G", "T">>}
        \/ l.flags = BAM_FREAD1 /\ l.contig = Chr1 /\ l.seq = <<"A">> }

\* the state after lines 245-246: the group of T1 is open and empty
InitMerge ==
    /\ pc = "next"
    /\ err = "none"
    /\ consumed = 0
    /\ line = NoLine
    /\ last_template = "T1"
    /\ reads_by_end = EmptyDict
    /\ pending = NoItem
    /\ yieldAt = "none"
    /\ fq1 = <<>>
    /\ fq2 = <<>>
    /\ stderr = <<>>
    /\ finalized = <<>>
    /\ writes = <<>>
    /\ yielded = <<>>
    /\ seen = <<>>
    /\ ToilIdle

\* lines 227 and 249-263: the next record of the open template is parsed
\* and merged
MergeRecord ==
    /\ pc = "next"
    /\ consumed < MaxMerges
    /\ \E l \in MergeLines :
        /\ line' = l
        /\ seen' = Append(seen, l)
        /\ StartAndMerge(FALSE, Read(l))
    /\ consumed' = consumed + 1
    /\ UNCHANGED <<pending, yieldAt, fq1, fq2, stderr, finalized, writes,
                   yielded>>
    /\ UNCHANGED toilVars

\* the loop over the records ls of the open template, from the group reads:
\* the dict at the end, or at the first exception, and that exception
RECURSIVE MergeAll(_, _)
MergeAll(reads, ls) ==
    IF ls = <<>> THEN [reads |-> reads, err |-> "none"]
    ELSE LET m == MergeRead(reads, Read(Head(ls)))
         IN  IF m.err # "none" THEN m ELSE MergeAll(m.reads, Tail(ls))

NextMerge == MergeRecord

SpecMerge == InitMerge /\ [][NextMerge]_vars

----------------------------------------------------------------------------
(* reverse_complement on its own: it is applied to a sequence, and to its  *)
(* result, and the line that holds the sequence is parsed by Read.         *)

Bases == {"A", "C", "G", "T", "N"}

DnaLines ==
    { MkLine(FALSE, MinFields, "T1", f, c, <<dna, [i \in DOMAIN dna |-> "I"]>>) :
        f \in {0, BAM_FREVERSE}, c \in Contigs,
        dna \in UNION { [1..n -> Bases] : n \in 0..MaxSeqLen } }

\* seen keeps the line as it was drawn
InitDna ==
    /\ pc = "parse"
    /\ err = "none"
    /\ consumed = 0
    /\ line \in DnaLines
    /\ last_template = None
    /\ reads_by_end = EmptyDict
    /\ pending = NoItem
    /\ yieldAt = "none"
    /\ fq1 = <<>>
    /\ fq2 = <<>>
    /\ stderr = <<>>
    /\ finalized = <<>>
    /\ writes = <<>>
    /\ yielded = <<>>
    /\ seen = <<line>>
    /\ ToilIdle

\* the sequence of the line is replaced by its reverse complement
ApplyReverseComplement ==
    /\ pc = "parse"
    /\ consumed < MaxApply
    /\ line' = [line EXCEPT !.seq = reverse_complement(line.seq)]
    /\ consumed' = consumed + 1
    /\ UNCHANGED <<pc, err, last_template, reads_by_end, pending, yieldAt,
                   fq1, fq2, stderr, finalized, writes, yielded, seen>>
    /\ UNCHANGED toilVars

NextDna ==
    \/ ApplyReverseComplement
    \/ ParseLine

SpecDna == InitDna /\ [][NextDna]_vars

----------------------------------------------------------------------------
(* Vocabulary of the properties *)

Range(s) == { s[i] : i \in DOMAIN s }

\* the entries of sequence t that come after its prefix s
Added(s, t) == SubSeq(t, Len(s) + 1, Len(t))

NameOf(t, end) == <<t, "/", end>>

\* a FASTQ record or write that carries the name of template t
NamedAfter(name, t) == name[1] = t

\* the records of every template are contiguous in what was read so far
Contiguous ==
    /\ \A i, j \in DOMAIN finalized :
          i # j => finalized[i].template # finalized[j].template
    /\ \A i \in DOMAIN finalized :
          pc # "done" => finalized[i].template # last_template

\* the final representatives of both mates exist and are not suspect
BothResolved(g) ==
    /\ 1 \in DOMAIN g.suspect /\ ~g.suspect[1]
    /\ 2 \in DOMAIN g.suspect /\ ~g.suspect[2]

\* this step takes an alignment line of the open template from the input;
\* its read R meets the representative C of its end
MergeOnto ==
    /\ pc = "next"
    /\ consumed' = consumed + 1
    /\ ~line'.at
    /\ line'.nfields >= MinFields
    /\ ~(HasBit(line'.flags, BAM_FREAD1) /\ HasBit(line'.flags, BAM_FREAD2))
    /\ line'.template = last_template
    /\ Read(line').end \in DOMAIN reads_by_end

R == Read(line')
C == reads_by_end[Read(line').end]

\* the step makes R the representative of its end and raises nothing
Replaces ==
    /\ reads_by_end' = DictSet(reads_by_end, R.end, R)
    /\ err' = "none"
    /\ pc' = "next"

\* the step leaves the group as it is and raises nothing
Discards ==
    /\ reads_by_end' = reads_by_end
    /\ err' = "none"
    /\ pc' = "next"

\* the step raises the given exception and changes neither group nor output
Fails(kind) ==
    /\ pc' = "error"
    /\ err' = kind
    /\ reads_by_end' = reads_by_end
    /\ fq1' = fq1
    /\ fq2' = fq2

\* this step opens a group: the read of the current line is its sole content
Opens ==
    /\ last_template' # last_template
    /\ reads_by_end' = DictSet(EmptyDict, Read(line').end, Read(line'))

----------------------------------------------------------------------------
(* Properties *)

\* C1: when main has returned without error on contiguous input, every
\* template that was finalized with non-suspect representatives for end 1
\* and end 2 has exactly one record <template>/1 in fq1 and exactly one
\* record <template>/2 in fq2, and the fq1 write came before the fq2 write.
C1_PairingCompleteness ==
    (pc = "done" /\ err = "none" /\ Contiguous) =>
        \A i \in DOMAIN finalized :
            BothResolved(finalized[i]) =>
                LET t == finalized[i].template
                    w1 == [stream |-> "fq1", name |-> NameOf(t, 1)]
                    w2 == [stream |-> "fq2", name |-> NameOf(t, 2)]
                IN  /\ Cardinality({k \in DOMAIN fq1 :
                                      fq1[k].name = NameOf(t, 1)}) = 1
                    /\ Cardinality({k \in DOMAIN fq2 :
                                      fq2[k].name = NameOf(t, 2)}) = 1
                    /\ \E a, b \in DOMAIN writes :
                          a < b /\ writes[a] = w1 /\ writes[b] = w2

\* the ends of the records seen so far for template t
EndsSeen(t) ==
    UNION { DOMAIN finalized[i].suspect :
              i \in { j \in DOMAIN finalized : finalized[j].template = t } }
    \cup (IF last_template = t THEN DOMAIN reads_by_end ELSE {})
    \cup (IF line.template = t /\ ~line.at /\ ParseError(line) = "none"
          THEN {ReadEnd(line.flags)} ELSE {})

OneEnded(t) == ~(1 \in EndsSeen(t) /\ 2 \in EndsSeen(t))

NoRecordFor(t) ==
    /\ \A k \in DOMAIN fq1 : ~NamedAfter(fq1[k].name, t)
    /\ \A k \in DOMAIN fq2 : ~NamedAfter(fq2[k].name, t)

\* C2 as stated: a template whose records are all unpaired, or are of only
\* one of end 1 and end 2, is never written to fq1 or fq2 and never raises an
\* error.  The errors counted are the one the merge raises on purpose and
\* the one a missing end would raise in main; the statement is violated
\* already for these.
C2_UnpairedDropOriginal ==
    \A t \in Templates :
        OneEnded(t) =>
            /\ NoRecordFor(t)
            /\ ~(/\ pc = "error"
                 /\ err \in {"Conflict", "KeyError"}
                 /\ last_template = t)

\* C2 as amended: such a template is never written to fq1 or fq2, and closing
\* and dropping its group raises nothing (no exception in the finalization
\* loop, no KeyError on a missing end in main); the merging of its records
\* can still raise an exception.
C2_UnpairedDrop ==
    /\ [](\A t \in Templates : OneEnded(t) => NoRecordFor(t))
    /\ [](err # "KeyError")
    /\ [][(finalized' # finalized
             /\ ~(1 \in DOMAIN reads_by_end /\ 2 \in DOMAIN reads_by_end))
            => err' = "none"]_vars

\* a one-ended template and an unpaired-only template were dropped
C2_Witness ==
    /\ pc = "done"
    /\ err = "none"
    /\ \E i, j \in DOMAIN finalized :
          /\ DOMAIN finalized[i].suspect = {1}
          /\ DOMAIN finalized[j].suspect = {0}

\* C3: when a non-suspect read meets a suspect representative of its
\* template and end, it replaces it; when a suspect read meets a non-suspect
\* representative, the representative stays; neither raises an error; and
\* the first read of a group becomes the representative of its end.
C3_SuspectDominance ==
    /\ [][(MergeOnto /\ C.is_suspect /\ ~R.is_suspect) => Replaces]_vars
    /\ [][(MergeOnto /\ ~C.is_suspect /\ R.is_suspect) => Discards]_vars
    /\ [][(last_template' # last_template) => (Opens /\ err' = "none")]_vars

\* a suspect read of two bases has met the non-suspect representative of one
\* base, which stays
C3_Witness ==
    /\ pc = "next"
    /\ consumed >= 2
    /\ ~line.at
    /\ Read(line).is_suspect
    /\ Read(line).end \in DOMAIN reads_by_end
    /\ LET cur == reads_by_end[Read(line).end]
       IN  /\ ~cur.is_suspect
           /\ cur.template = line.template
           /\ Len(cur.sequence) < Len(Read(line).sequence)

\* C4: of two non-suspect reads of one template and end with sequences of
\* different lengths the longer one is the representative afterwards: a
\* longer read replaces the representative, a shorter one is discarded, and
\* no error is raised.
C4_LongestWins ==
    /\ [][(MergeOnto /\ ~C.is_suspect /\ ~R.is_suspect
             /\ Len(R.sequence) > Len(C.sequence)) => Replaces]_vars
    /\ [][(MergeOnto /\ ~C.is_suspect /\ ~R.is_suspect
             /\ Len(R.sequence) < Len(C.sequence)) => Discards]_vars

\* a shorter non-suspect read with other content has met the longer
\* non-suspect representative, which stays
C4_Witness ==
    /\ pc = "next"
    /\ consumed >= 2
    /\ ~line.at
    /\ ~Read(line).is_suspect
    /\ Read(line).end \in DOMAIN reads_by_end
    /\ LET cur == reads_by_end[Read(line).end]
       IN  /\ ~cur.is_suspect
           /\ cur.template = line.template
           /\ Len(cur.sequence) > Len(Read(line).sequence)
           /\ SubSeq(cur.sequence, 1, 1) # Read(line).sequence

\* C5 as stated: a non-suspect read that meets a non-suspect representative
\* of its template and end and differs from it in sequence or quality ends
\* in the conflicting-alignments error.
C5_ConflictOriginal ==
    [][(MergeOnto /\ ~C.is_suspect /\ ~R.is_suspect
          /\ (R.sequence # C.sequence \/ R.qualities # C.qualities))
       => Fails("Conflict")]_vars

\* C5 as amended: a non-suspect read that meets a non-suspect representative
\* of its template and end with a sequence of the same length and other
\* content ends in the conflicting-alignments error, in either arrival order
\* of the two; reads of different lengths raise no error.
C5_Conflict ==
    /\ [][(MergeOnto /\ ~C.is_suspect /\ ~R.is_suspect
             /\ Len(R.sequence) = Len(C.sequence)
             /\ R.sequence # C.sequence) => Fails("Conflict")]_vars
    /\ [][(MergeOnto /\ ~C.is_suspect /\ ~R.is_suspect
             /\ Len(R.sequence) # Len(C.sequence)) => err' = "none"]_vars

\* two non-suspect reads of the same length and other content have met
C5_Witness ==
    /\ pc = "error"
    /\ err = "Conflict"
    /\ Read(line).end \in DOMAIN reads_by_end
    /\ LET cur == reads_by_end[Read(line).end]
       IN  /\ ~cur.is_suspect /\ ~Read(line).is_suspect
           /\ Len(cur.sequence) = Len(Read(line).sequence)
           /\ cur.sequence # Read(line).sequence

\* C6: a non-suspect read that meets a non-suspect representative with the
\* same template, end and sequence and another quality string compares as
\* unequal, so the merge ends in the conflicting-alignments error and in no
\* other failure.
C6_QualityMismatchIsConflict ==
    [][(MergeOnto /\ ~C.is_suspect /\ ~R.is_suspect
          /\ R.sequence = C.sequence /\ R.qualities # C.qualities)
       => Fails("Conflict")]_vars

\* the group that this step closes, and the warnings the step writes
Closes == finalized' # finalized
Closed == reads_by_end
NewWarnings == Added(stderr, stderr')

\* C7: when a group is closed whose representative of some end is suspect, a
\* warning naming that end and the template is written, the group is not
\* handed to main and nothing is written to fq1 or fq2, no error is raised,
\* and at a template change the run goes on with the new read as the sole
\* content of a new group.
C7_SuspectOnlyWarning ==
    [][(Closes /\ \E e \in DOMAIN Closed : Closed[e].is_suspect)
       => /\ \A e \in DOMAIN Closed :
                Closed[e].is_suspect
                <=> [end |-> e, template |-> last_template]
                        \in Range(NewWarnings)
          /\ pending' = pending
          /\ pc' # "body"
          /\ fq1' = fq1 /\ fq2' = fq2
          /\ err' = "none"
          /\ IF consumed' = consumed + 1
             THEN pc' = "next" /\ Opens
             ELSE pc' = "done"]_vars

\* a group with a suspect end was closed with a warning at a template
\* change, and the run went on with the next template
C7_Witness ==
    /\ pc = "next"
    /\ err = "none"
    /\ Len(stderr) >= 1
    /\ Len(finalized) >= 1
    /\ last_template # finalized[1].template
    /\ \E e \in DOMAIN finalized[1].suspect :
          /\ finalized[1].suspect[e]
          /\ stderr[1] = [end |-> e, template |-> finalized[1].template]
    /\ DOMAIN reads_by_end = {Read(line).end}
    /\ fq1 = <<>> /\ fq2 = <<>>

\* C8: once the conflicting-alignments error is raised the run has stopped:
\* the step that raises it closes no group and writes nothing, and no step
\* follows it, so no line is consumed, no group closed and nothing written
\* afterwards.
C8_ConflictStopsRun ==
    /\ [][(err = "none" /\ err' = "Conflict")
            => /\ pc' = "error"
               /\ finalized' = finalized
               /\ stderr' = stderr
               /\ fq1' = fq1 /\ fq2' = fq2]_vars
    /\ [][err = "Conflict"
            => /\ consumed' = consumed
               /\ finalized' = finalized
               /\ fq1' = fq1 /\ fq2' = fq2
               /\ pc' = pc]_vars

\* the conflict was raised while the input still had lines to give
C8_Witness ==
    /\ err = "Conflict"
    /\ pc = "error"
    /\ consumed < MaxLines
    /\ last_template = line.template

\* the line this step takes is not a header and cannot be parsed
Malformed ==
    /\ consumed' = consumed + 1
    /\ ~line'.at
    /\ \/ line'.nfields < MinFields
       \/ HasBit(line'.flags, BAM_FREAD1) /\ HasBit(line'.flags, BAM_FREAD2)

\* C9: taking a non-header line with fewer than 11 fields, or with both mate
\* bits set, ends the run with an error: the line is not merged into the open
\* group, the open group is not closed, and nothing is written afterwards.
C9_MalformedAborts ==
    /\ [][Malformed
            => /\ pc' = "error"
               /\ err' \in {"IndexError", "BothEnds"}
               /\ reads_by_end' = reads_by_end
               /\ last_template' = last_template
               /\ finalized' = finalized
               /\ stderr' = stderr
               /\ pending' = pending
               /\ fq1' = fq1 /\ fq2' = fq2]_vars
    /\ [][(err = "IndexError" \/ err = "BothEnds")
            => /\ pc' = pc
               /\ reads_by_end' = reads_by_end
               /\ finalized' = finalized
               /\ fq1' = fq1 /\ fq2' = fq2]_vars

\* a line with both mate bits, of the open template, ended the run while a
\* group was open
C9_Witness ==
    /\ pc = "error"
    /\ err = "BothEnds"
    /\ line.nfields = MinFields
    /\ line.template = last_template
    /\ DOMAIN reads_by_end # {}
    /\ finalized = <<>>

\* C10: a line that starts with '@' is yielded as it is and leaves the
\* accumulator alone: template id and representatives are unchanged, no
\* group is closed, no warning written, and no parse error is raised for it.
C10_HeaderPassThrough ==
    [][(consumed' = consumed + 1 /\ line'.at)
       => /\ pending' = StrItem(line')
          /\ pc' = "body"
          /\ last_template' = last_template
          /\ reads_by_end' = reads_by_end
          /\ finalized' = finalized
          /\ stderr' = stderr
          /\ err' = "none"
          /\ fq1' = fq1 /\ fq2' = fq2]_vars

\* a header with the fields of a malformed alignment was yielded in the
\* middle of a group
C10_Witness ==
    /\ pc = "body"
    /\ pending.kind = "str"
    /\ pending.line = line
    /\ line.flags = BAM_FREAD1 + BAM_FREAD2
    /\ last_template \in Templates
    /\ DOMAIN reads_by_end # {}
    /\ err = "none"

\* C11: a header line does not make main fail: when main's loop body runs
\* for a yielded header, no exception is raised, the run goes on, and the
\* header adds nothing to fq1 or fq2.
C11_HeadersDoNotFailMain ==
    [][(pc = "body" /\ pending.kind = "str")
       => /\ err' = "none"
          /\ pc' # "error"
          /\ fq1' = fq1 /\ fq2' = fq2]_vars

\* the warnings due for a group: one for each suspect representative, by
\* ascending end
ExpectedWarnings(reads) ==
    LET Due(e) == e \in DOMAIN reads /\ reads[e].is_suspect
        ends == SelectSeq(<<0, 1, 2>>, Due)
    IN  [i \in 1..Len(ends) |->
            [end |-> ends[i], template |-> reads[ends[i]].template]]

\* this step is the end of the input
AtEndOfInput == pc = "next" /\ consumed' = consumed /\ pc' # pc

\* this step takes an alignment line of another template than the open one
AtTemplateChange ==
    /\ pc = "next"
    /\ consumed' = consumed + 1
    /\ ~line'.at
    /\ line'.nfields >= MinFields
    /\ ~(HasBit(line'.flags, BAM_FREAD1) /\ HasBit(line'.flags, BAM_FREAD2))
    /\ line'.template # last_template

\* what closing the open group does: the warnings, the history entry, and
\* the hand-over of the group when all_ok says so
ClosesOpenGroup ==
    /\ stderr' = stderr \o ExpectedWarnings(reads_by_end)
    /\ finalized' = IF DOMAIN reads_by_end = {} THEN finalized
                    ELSE Append(finalized,
                                Summary(last_template, reads_by_end))
    /\ IF AllOk(reads_by_end)
       THEN /\ pc' = "body"
            /\ pending' = DictItem(reads_by_end)
            /\ yielded' = Append(yielded, DictItem(reads_by_end))
       ELSE /\ pc' # "body"
            /\ pending' = pending
            /\ yielded' = yielded
    /\ err' = "none"
    /\ fq1' = fq1 /\ fq2' = fq2

\* C17: the end of the input closes the open group exactly as a template
\* change does: from the same state both write the same warnings, record the
\* same group and yield the same item or none.
C17_EndOfStreamLikeChange ==
    /\ [][AtEndOfInput => (ClosesOpenGroup /\ pc' \in {"body", "done"})]_vars
    /\ [][AtTemplateChange
            => (ClosesOpenGroup /\ pc' \in {"body", "next"})]_vars

\* the input ended on a group with a suspect representative, which was
\* closed with its warning
C17_Witness ==
    /\ pc = "done"
    /\ err = "none"
    /\ Len(finalized) >= 1
    /\ finalized[Len(finalized)].template = last_template
    /\ \E e \in DOMAIN reads_by_end : reads_by_end[e].is_suspect
    /\ Len(stderr) >= 1
    /\ stderr[Len(stderr)].template = last_template

\* C18: an input of alignment lines of one template, whatever their number,
\* makes parse_and_deduplicate_sam yield exactly one item.
C18_OneTemplateOneItem ==
    (pc = "done" /\ err = "none" /\ Len(finalized) = 1)
        => Len(yielded) = 1

\* three lines of one template were read to the end, among them a suspect
\* one as in the doctest
C18_Witness ==
    /\ pc = "done"
    /\ err = "none"
    /\ consumed = 3
    /\ Len(finalized) = 1
    /\ Len(yielded) = 1
    /\ \E e \in DOMAIN reads_by_end : reads_by_end[e].is_suspect

\* C19: a group is handed on only if one is open: every dict the generator
\* yields holds at least one representative, so nothing is yielded at the
\* first record of the stream nor for an input without alignment records.
C19_OnlyOpenGroupsYielded ==
    \A i \in DOMAIN yielded :
        yielded[i].kind = "dict" => DOMAIN yielded[i].reads # {}

\* this step takes an alignment line of the open template
MergeSame ==
    /\ pc = "next"
    /\ consumed' = consumed + 1
    /\ ~line'.at
    /\ line'.nfields >= MinFields
    /\ ~(HasBit(line'.flags, BAM_FREAD1) /\ HasBit(line'.flags, BAM_FREAD2))
    /\ line'.template = last_template

\* C20: merging R into the open group makes R the representative of its end
\* exactly when that end has none yet, or R is non-suspect and the current
\* representative C is suspect or has a shorter sequence; otherwise C stays;
\* the representatives of the other ends are unchanged.
C20_ReplacementRule ==
    [][MergeSame
       => /\ DOMAIN reads_by_end' = DOMAIN reads_by_end \cup {R.end}
          /\ \A o \in DOMAIN reads_by_end \ {R.end} :
                reads_by_end'[o] = reads_by_end[o]
          /\ reads_by_end'[R.end] =
                IF \/ R.end \notin DOMAIN reads_by_end
                   \/ /\ ~R.is_suspect
                      /\ \/ C.is_suspect
                         \/ Len(R.sequence) > Len(C.sequence)
                THEN R ELSE C]_vars

\* a non-suspect read met another non-suspect representative with a
\* sequence of the same length, which stays, next to the representative of
\* another end
C20_Witness ==
    /\ pc = "next"
    /\ consumed >= 3
    /\ ~line.at
    /\ line.template = last_template
    /\ Read(line).end \in DOMAIN reads_by_end
    /\ Cardinality(DOMAIN reads_by_end) >= 2
    /\ LET cur == reads_by_end[Read(line).end]
       IN  /\ cur # Read(line)
           /\ ~cur.is_suspect /\ ~Read(line).is_suspect
           /\ Len(cur.sequence) = Len(Read(line).sequence)

\* the base that pairs with ch; N pairs with itself
Complement(ch) ==
    IF ch = "A" THEN "T"
    ELSE IF ch = "T" THEN "A"
    ELSE IF ch = "C" THEN "G"
    ELSE IF ch = "G" THEN "C"
    ELSE ch

Backwards(s) == [i \in 1..Len(s) |-> s[Len(s) + 1 - i]]

\* bit 16 of the flags column of the line
ReverseBit == (line.flags \div 16) % 2 = 1
Mate1Bit == (line.flags \div 64) % 2 = 1
Mate2Bit == (line.flags \div 128) % 2 = 1

\* the sequence and quality the line stands for in forward orientation
ForwardSequence ==
    IF ReverseBit
    THEN Backwards([i \in 1..Len(line.seq) |-> Complement(line.seq[i])])
    ELSE line.seq

ForwardQualities == IF ReverseBit THEN Backwards(line.qual) ELSE line.qual

\* the line was parsed into an object
Parsed == pc \in {"write", "written"}

\* C14: the stored sequence is the reverse complement of column 10 and the
\* stored quality is column 11 reversed when bit 16 is set, both verbatim
\* when it is clear, and write_fastq emits the stored strings unchanged
\* ("AACG" with the reverse bit is stored and written as "CGTT").
C14_NormalizedOnce ==
    /\ Parsed =>
        \A e \in DOMAIN reads_by_end :
            /\ reads_by_end[e].sequence = ForwardSequence
            /\ reads_by_end[e].qualities = ForwardQualities
            /\ (ReverseBit /\ line.seq = <<"A", "A", "C", "G">>)
                 => reads_by_end[e].sequence = <<"C", "G", "T", "T">>
    /\ pc = "written" =>
        /\ Len(fq1) = 1
        /\ fq1[1].sequence = ForwardSequence
        /\ fq1[1].qualities = ForwardQualities

\* the reverse-strand line with "AACG" was written as "CGTT"
C14_Witness ==
    /\ pc = "written"
    /\ ReverseBit
    /\ line.seq = <<"A", "A", "C", "G">>
    /\ line.qual = <<"I", "J", "K", "L">>
    /\ fq1[1].sequence = <<"C", "G", "T", "T">>
    /\ fq1[1].qualities = <<"L", "K", "J", "I">>

\* the contig name ends with the four characters _alt
EndsWithAlt ==
    LET c == line.contig
        n == Len(line.contig)
    IN  /\ n >= 4
        /\ c[n - 3] = "_" /\ c[n - 2] = "a" /\ c[n - 1] = "l" /\ c[n] = "t"

\* C15: is_suspect is true exactly when the contig name ends with "_alt"
\* and the sequence length is even, zero included, whatever the
\* reverse-strand bit and the mate bits are.
C15_SuspectRule ==
    Parsed =>
        \A e \in DOMAIN reads_by_end :
            reads_by_end[e].is_suspect
                <=> (EndsWithAlt /\ Len(line.seq) % 2 = 0)

\* a forward-strand first mate with an empty sequence on an alt contig is
\* suspect
C15_Witness ==
    /\ Parsed
    /\ ~ReverseBit
    /\ Mate1Bit
    /\ line.seq = <<>>
    /\ EndsWithAlt
    /\ \E e \in DOMAIN reads_by_end : reads_by_end[e].is_suspect

\* C16: when the flags do not have both mate bits, the end is 1 with bit 64,
\* 2 with bit 128 and 0 with neither, whatever the other bits are, and the
\* name written is <template>/1, <template>/2 or the bare template id.
C16_EndAndName ==
    /\ Parsed => ~(Mate1Bit /\ Mate2Bit)
    /\ (pc = "error") => (Mate1Bit /\ Mate2Bit)
    /\ Parsed =>
        /\ DOMAIN reads_by_end =
              {IF Mate1Bit THEN 1 ELSE IF Mate2Bit THEN 2 ELSE 0}
        /\ \A e \in DOMAIN reads_by_end : reads_by_end[e].end = e
    /\ pc = "written" =>
        fq1[1].name = IF Mate1Bit THEN <<line.template, "/", 1>>
                      ELSE IF Mate2Bit THEN <<line.template, "/", 2>>
                      ELSE <<line.template>>

\* a second mate with other bits set was written under <template>/2
C16_Witness ==
    /\ pc = "written"
    /\ Mate2Bit
    /\ line.flags # 128
    /\ fq1[1].name = <<line.template, "/", 2>>

\* the items main's loop has dealt with
Handled == IF pc = "body" THEN SubSeq(yielded, 1, Len(yielded) - 1)
           ELSE yielded

IsPair(item) ==
    item.kind = "dict" /\ 1 \in DOMAIN item.reads /\ 2 \in DOMAIN item.reads

\* the groups with both mates, in the order in which they reached main
Pairs == SelectSeq(Handled, IsPair)

C13_StrictlyPaired ==
    /\ Len(fq1) = Len(fq2)
    /\ \A i \in 1..Len(fq1) :
        /\ Len(fq1[i].name) = 3
        /\ Len(fq2[i].name) = 3
        /\ fq1[i].name[1] = fq2[i].name[1]
        /\ fq1[i].name[2] = "/" /\ fq1[i].name[3] = 1
        /\ fq2[i].name[2] = "/" /\ fq2[i].name[3] = 2

\* a pair was written, and groups with an unpaired read, with end 1 only
\* and with end 2 only went through the loop
C13_Witness ==
    /\ pc = "next"
    /\ Len(fq1) = 1
    /\ Len(fq2) = 1
    /\ \E i \in DOMAIN yielded : DOMAIN yielded[i].reads = {0, 1}
    /\ \E i \in DOMAIN yielded : DOMAIN yielded[i].reads = {2}

\* C21: a suspect read that meets a representative of its end is discarded:
\* the representative and the rest of the group stay as they are, nothing is
\* raised, warned or written, whether the representative is suspect or not,
\* shorter or not.
C21_SuspectDiscarded ==
    [][(MergeOnto /\ R.is_suspect)
       => /\ Discards
          /\ stderr' = stderr
          /\ fq1' = fq1 /\ fq2' = fq2]_vars

\* a suspect read of two bases has met the suspect representative without
\* bases, which stays, next to the representative of another end
C21_Witness ==
    /\ pc = "next"
    /\ consumed = 3
    /\ Read(line).is_suspect
    /\ Len(Read(line).sequence) = 2
    /\ Cardinality(DOMAIN reads_by_end) = 2
    /\ Read(line).end \in DOMAIN reads_by_end
    /\ LET cur == reads_by_end[Read(line).end]
       IN  /\ cur.is_suspect
           /\ cur.sequence = <<>>

\* C22: a read with the template, end, stored sequence and stored quality of
\* the non-suspect representative is merged without error and leaves the
\* group as it is, whatever contig and strand it comes from; and merging the
\* record just merged once more changes nothing.
C22_EqualReadIsNoConflict ==
    /\ [][(MergeOnto /\ ~C.is_suspect
             /\ R.sequence = C.sequence /\ R.qualities = C.qualities)
          => Discards]_vars
    /\ [][(MergeOnto /\ consumed >= 1 /\ line' = line) => Discards]_vars

\* a reverse-strand record whose raw sequence is the reverse complement of
\* the forward representative's has met it, and the representative stays
C22_Witness ==
    /\ pc = "next"
    /\ consumed >= 2
    /\ HasBit(line.flags, BAM_FREVERSE)
    /\ line.seq = <<"G", "T">>
    /\ Read(line).end \in DOMAIN reads_by_end
    /\ LET cur == reads_by_end[Read(line).end]
       IN  /\ ~cur.is_suspect
           /\ ~cur.is_reverse
           /\ cur.line.seq = <<"A", "C">>
           /\ cur.sequence = Read(line).sequence
           /\ cur.qualities = Read(line).qualities

\* C23: a merge of R onto the representative C raises the conflict error
\* exactly when both are non-suspect, their sequences have the same length
\* and R is not equal to C in sequence or quality; no other merge raises
\* anything, and a non-suspect R shorter than a non-suspect C is discarded
\* without error.
C23_ConflictExactly ==
    [][MergeOnto
       => /\ (err' = "Conflict")
               <=> /\ ~R.is_suspect /\ ~C.is_suspect
                   /\ Len(R.sequence) = Len(C.sequence)
                   /\ (R.sequence # C.sequence \/ R.qualities # C.qualities)
          /\ (err' = "none" \/ err' = "Conflict")
          /\ (~R.is_suspect /\ ~C.is_suspect
                /\ Len(R.sequence) < Len(C.sequence)) => Discards]_vars

\* C24: the open group always has at most one record for each of the ends
\* 0, 1 and 2, the record under key e has end e, and every record has the
\* template of the alignment record read last, so none of an earlier
\* template is kept after a template change.
C24_GroupShape ==
    /\ DOMAIN reads_by_end \subseteq {0, 1, 2}
    /\ \A e \in DOMAIN reads_by_end :
        /\ reads_by_end[e].end = e
        /\ reads_by_end[e].template = last_template
    /\ (pc = "next" /\ consumed >= 1 /\ ~line.at)
         => /\ line.template = last_template
            /\ Read(line).end \in DOMAIN reads_by_end

\* after a template change the group holds two records of the new template
C24_Witness ==
    /\ pc = "next"
    /\ consumed = 3
    /\ Len(finalized) = 1
    /\ finalized[1].template # last_template
    /\ Cardinality(DOMAIN reads_by_end) = 2

\* the records seen so far for end e of the open template
SeenFor(e) ==
    { Read(seen[i]) : i \in { j \in DOMAIN seen : Read(seen[j]).end = e } }

\* the representative of end e is not suspect
Clean(reads, e) == e \in DOMAIN reads /\ ~reads[e].is_suspect

\* C25: within one group a representative only improves: a non-suspect
\* representative is followed by a non-suspect one whose sequence is not
\* shorter, and a representative is suspect only if every record seen for
\* its end was suspect.
C25_OnlyImproves ==
    /\ [][\A e \in DOMAIN reads_by_end :
            Clean(reads_by_end, e)
              => /\ Clean(reads_by_end', e)
                 /\ Len(reads_by_end'[e].sequence)
                      >= Len(reads_by_end[e].sequence)]_vars
    /\ [](\A e \in DOMAIN reads_by_end :
            reads_by_end[e].is_suspect
              => \A r \in SeenFor(e) : r.is_suspect)

\* a suspect record, then a non-suspect one of one base, then a non-suspect
\* one of three bases were merged for one end; the last is the
\* representative
C25_Witness ==
    /\ pc = "next"
    /\ consumed = 3
    /\ Read(seen[1]).end = Read(seen[3]).end
    /\ Read(seen[2]).end = Read(seen[3]).end
    /\ Read(seen[1]).is_suspect
    /\ ~Read(seen[2]).is_suspect /\ Len(seen[2].seq) = 1
    /\ ~Read(seen[3]).is_suspect /\ Len(seen[3].seq) = 3
    /\ reads_by_end[Read(seen[3]).end] = Read(seen[3])

\* all records merged so far are of one end
OneEnd ==
    /\ seen # <<>>
    /\ \A i, j \in DOMAIN seen : Read(seen[i]).end = Read(seen[j]).end

\* the records merged so far in every arrival order
Permuted ==
    { [i \in DOMAIN seen |-> seen[f[i]]] : f \in Permutations(DOMAIN seen) }

\* what a run ends with: the exception, or sequence, quality and suspect
\* flag of the representatives
Result(m) ==
    IF m.err # "none" THEN <<"raised", m.err>>
    ELSE <<"merged", [e \in DOMAIN m.reads |->
                        <<m.reads[e].sequence, m.reads[e].qualities,
                          m.reads[e].is_suspect>>]>>

\* the same, without the kind of the exception
ResultOrError(m) ==
    IF m.err # "none" THEN <<"raised">> ELSE Result(m)

Here == [reads |-> reads_by_end, err |-> err]

\* C26 as stated: for records of one template and end, every arrival order
\* ends like this one: with the same error, or with a representative of the
\* same sequence, quality and suspect flag.  ("The same error" stands for
\* "the conflict error", so that the NameError of line 153, which both
\* orders of two such records raise, is not what refutes the statement.)
C26_OrderIndependentOriginal ==
    OneEnd => \A p \in Permuted : Result(MergeAll(EmptyDict, p)) = Result(Here)

\* at least one record is non-suspect, and the non-suspect records have
\* sequences of one length
OneLength ==
    /\ \E i \in DOMAIN seen : ~Read(seen[i]).is_suspect
    /\ \A i, j \in DOMAIN seen :
          (~Read(seen[i]).is_suspect /\ ~Read(seen[j]).is_suspect)
             => Len(seen[i].seq) = Len(seen[j].seq)

\* C26 as amended: when at least one record of the end is non-suspect and
\* the non-suspect ones have sequences of one length, every arrival order
\* ends alike: all raise an error, or all finish with a representative of
\* the same sequence, quality and suspect flag.
C26_OrderIndependent ==
    (OneEnd /\ OneLength)
       => \A p \in Permuted :
            ResultOrError(MergeAll(EmptyDict, p)) = ResultOrError(Here)

\* three records of one end, a suspect one and two equal non-suspect ones
\* from different contigs, were merged without error
C26_Witness ==
    /\ pc = "next"
    /\ consumed = 3
    /\ OneEnd
    /\ OneLength
    /\ \E i \in DOMAIN seen : Read(seen[i]).is_suspect
    /\ \E i, j \in DOMAIN seen :
          /\ ~Read(seen[i]).is_suspect /\ ~Read(seen[j]).is_suspect
          /\ seen[i].contig # seen[j].contig

\* the template of the line this step takes had a group closed before
Reappears ==
    \E i \in DOMAIN finalized : finalized[i].template = line'.template

\* C27: when a template comes back after records of another one, nothing is
\* raised: the open group is closed as at any change and a fresh group is
\* opened that holds the new record alone, so the earlier records of the
\* template are not compared with it, and the template is closed again
\* later.
C27_NonContiguousUndetected ==
    [][(AtTemplateChange /\ Reappears)
       => /\ err' = "none"
          /\ pc' # "error"
          /\ finalized' = Append(finalized,
                                 Summary(last_template, reads_by_end))
          /\ pc' = "next"
               => /\ last_template' = line'.template
                  /\ reads_by_end' =
                        DictSet(EmptyDict, Read(line').end, Read(line'))]_vars

\* the input T, U, T was read to its end and T was closed twice
C27_Witness ==
    /\ pc = "done"
    /\ err = "none"
    /\ Len(finalized) = 3
    /\ finalized[1].template = finalized[3].template
    /\ finalized[2].template # finalized[1].template
    /\ DOMAIN finalized[1].suspect = DOMAIN finalized[3].suspect

\* C30: reverse_complement keeps the length, leaves N as N and gives the
\* sequence back when it is applied twice; so a record parsed from a line
\* has a stored sequence as long as the raw one, and its suspect flag is
\* the one the raw length gives.
C30_ReverseComplementInvolution ==
    /\ Len(line.seq) = Len(seen[1].seq)
    /\ consumed = 2 => line.seq = seen[1].seq
    /\ consumed = 1 =>
         \A i \in DOMAIN line.seq :
            (seen[1].seq[i] = "N") <=> (line.seq[Len(line.seq) + 1 - i] = "N")
    /\ pc = "write" =>
         \A e \in DOMAIN reads_by_end :
            /\ Len(reads_by_end[e].sequence) = Len(line.seq)
            /\ reads_by_end[e].is_suspect
                 <=> (EndsWithAlt /\ Len(line.seq) % 2 = 0)

\* TN was turned into NA and back into TN
C30_Witness ==
    /\ consumed = 2
    /\ seen[1].seq = <<"T", "N">>
    /\ line.seq = <<"T", "N">>

\* the warnings downloadRange has logged
WarningsLogged == Len(SelectSeq(dl_log, LAMBDA level : level = "warning"))

\* C28: with ftp_retry = n the download runs at most n + 1 times; every
\* failed run short of the limit is followed by a warning and another run;
\* when n retries have failed, downloadRange ends with the exception of the
\* download; and it returns at the first run that succeeds.
C28_BoundedRetry ==
    /\ attempts <= ftp_retry.value + 1
    /\ dl_pc = "try" => WarningsLogged = attempts
    /\ (dl_pc = "returned" /\ attempts >= 1) => WarningsLogged = attempts - 1
    /\ dl_pc = "raised"
         => /\ dl_err = "CalledProcessError"
            /\ attempts = ftp_retry.value + 1
            /\ WarningsLogged = ftp_retry.value

\* the messages before pos whose body is JSON, in order
JsonBefore(n) ==
    LET IsJson(i) == rfile[i] = "json"
    IN  SelectSeq([i \in 1..(n - 1) |-> i], IsJson)

\* C29: a message that is not valid JSON is reported and skipped: handle
\* does not fail, one error is logged for each such message, and the records
\* handed to the logger are those of the valid messages read so far, once
\* each and in order.
C29_MalformedSkipped ==
    /\ hd_pc # "raised"
    /\ hd_err = "none"
    /\ handled = JsonBefore(pos)
    /\ errors = Cardinality({ i \in 1..(pos - 1) : rfile[i] = "garbage" })

====
